---- MODULE Spec2Model ----
(***************************************************************************)
(* Realtime device presence and command dispatch of tvbox-stack.           *)
(*                                                                         *)
(* The model follows backend/middleware/auth.js (the WebSocket handler:    *)
(* setupWebSocket, the handle* functions, broadcastToDevice,               *)
(* broadcastToAdmins and the cleanup interval) and, in the actions named   *)
(* Srv*, Toggle*, Token* and DeviceInsert, the standalone backend/server.js *)
(* with its pairing and toggle-block routes; the actions named Player*,    *)
(* FetchResolved and TimerFires follow PlayerPage of AdminDashboard.tsx,   *)
(* the page a device shows.  Node runs the handlers on                     *)
(* one event loop, so every action below is one run-to-completion stretch  *)
(* of code between two awaits; a handler that awaits the backing store is  *)
(* a task whose pc names the await it is suspended at.                     *)
(*                                                                         *)
(* The backing store (supabase) resolves every call with either a result   *)
(* or an error object; the handlers read the error only where the source   *)
(* does.  ws.send on a socket that is not OPEN delivers nothing.           *)
(***************************************************************************)
EXTENDS Naturals, Integers, Sequences, FiniteSets, TLC

\* ---------------------------------------------------------------- bounds
NConn == 2          \* WebSocket connections accepted during a run
MaxMsgs == 2
MaxCmds == 1        \* commands the control layer dispatches during a run
MaxTicks == 7       \* firings of the cleanup interval during a run
MaxReqs == 2        \* POST /api/register-device calls during a run
MaxPings == 2       \* keepalive probes a channel gets during a run
MaxLen == 3         \* items in a content list the API returns
MaxFetches == 2     \* fetchContent calls in flight at a time
MaxRegisters == 3   \* DEVICE_REGISTER frames the player sends during a run

\* ------------------------------------------------------------- constants
Period == 1         \* cleanup interval, in minutes
timeout == 5        \* staleness window, in minutes

Conns == 1..NConn
Reqs == 1..MaxReqs
NoConn == 0

KnownIds == {"d1", "d2"}            \* rows of the devices table
AllIds == KnownIds \cup {"dx"}      \* "dx" has no row
CoreIds == {"d1", "dx"}             \* ids the registration runs draw from
NoTenant == "none"
tenant_id(d) == IF d = "d1" THEN "A" ELSE "B"

\* users.tenant_id of the administrator behind an ADMIN_REGISTER; a frame
\* without userId keys the Map on undefined and names no tenant
UserIds == {"u1", "u2", "undefined"}
user_tenant(u) == CASE u = "u1" -> "A" [] u = "u2" -> "B" [] OTHER -> NoTenant

StoreOutcomes == {"ok", "error"}
EventTypes == {"online", "offline"}

VARIABLES
    readyState,         \* [Conns -> "idle" | "OPEN" | "CLOSING" | "CLOSED"]
    deviceConnections,  \* the Map, as its entry list in insertion order
    adminConnections,   \* the Map, as its entry list in insertion order
    tasks,              \* message handlers suspended at an await
    scans,              \* cleanup callbacks suspended at an await
    status,             \* devices.status of every row
    device_logs,        \* device_logs, as the number of rows per (device_id, event_type)
    sent,               \* frames written to each open channel
    offlinePublished,   \* per device id, DEVICE_OFFLINE broadcasts since its latest put
    now,                \* wall clock, in minutes
    nrecv,              \* per channel, inbound frames handled so far
    dispatched,         \* calls of broadcastToDevice with what they saw and returned
    lastReg,            \* per device id, the channel of the latest registry put
    consoleErrors,      \* lines written for an unknown type or a caught exception
    requests,           \* POST /api/register-device calls, each at its await or its answer
    is_used,            \* pairing_tokens.is_used of the token the calls carry
    created,            \* devices rows inserted by those calls
    exiting,            \* "running", "closing" once SIGINT called server.close, "exited"
    last_seen,          \* devices.last_seen, as the number of writes per row
    pings,              \* per channel, keepalive probes written by the 30-second interval
    content,            \* player: the list of content items, each by its id
    currentIndex,       \* player: index of the item on screen
    isBlocked,          \* player: the block screen is up
    mounted,            \* player: PlayerPage is in the tree
    fetching,           \* player: fetchContent calls awaiting their response
    playerWs,           \* player: "CONNECTING" | "OPEN" | "CLOSING" | "CLOSED" of wsRef.current
    registers,          \* player: DEVICE_REGISTER frames sent so far
    answer              \* player: what the server wrote back on the current socket

\* state of the HTTP side of server.js and of the process
serverVars == <<requests, is_used, created, exiting>>

\* state of the player page of one device
playerVars == <<content, currentIndex, isBlocked, mounted, fetching, playerWs, registers,
                answer>>

vars == <<readyState, deviceConnections, adminConnections, tasks, scans, status,
          device_logs, sent, offlinePublished, now, nrecv, dispatched, lastReg,
          consoleErrors, serverVars, last_seen, pings, playerVars>>

\* JSON.stringify({type, deviceId | userId, ...}); n numbers a dispatched command
Frame(t, d, u, n) == [type |-> t, dev |-> d, user |-> u, n |-> n]

\* device_logs.insert({device_id, event_type})
Insert(logs, d, e) == [logs EXCEPT ![<<d, e>>] = @ + 1]

\* ------------------------------------------------------------ Map helpers
MapHas(m, k) == \E i \in 1..Len(m) : m[i].key = k
IndexOf(m, k) == CHOOSE i \in 1..Len(m) : m[i].key = k
MapGet(m, k) == m[IndexOf(m, k)]
RemoveAt(m, i) == [j \in 1..(Len(m) - 1) |-> IF j < i THEN m[j] ELSE m[j + 1]]

MapSetAppend(m, v) == Append(m, v)
MapSet(m, v) ==
    IF MapHas(m, v.key) THEN [m EXCEPT ![IndexOf(m, v.key)] = v]
    ELSE Append(m, v)

MapDeleteNothing(m, k) == m
MapDelete(m, k) == IF MapHas(m, k) THEN RemoveAt(m, IndexOf(m, k)) ELSE m

\* ws.send(frame): a socket that is not OPEN drops the frame
Send(s, c, f) == IF readyState[c] = "OPEN" THEN [s EXCEPT ![c] = Append(@, f)] ELSE s

\* ------------------------------------------------------------- broadcast
RECURSIVE SendAll(_, _, _)
SendAll(s, targets, f) ==
    IF targets = <<>> THEN s
    ELSE SendAll(Send(s, Head(targets).ws, f), Tail(targets), f)

broadcastToAdminsButFirst(s, f, tenantId) ==
    IF adminConnections = <<>> THEN s ELSE SendAll(s, Tail(adminConnections), f)
\* broadcastToAdmins(message, tenantId): every OPEN admin channel gets the frame
broadcastToAdmins(s, f, tenantId) == SendAll(s, adminConnections, f)

Init ==
    /\ readyState = [c \in Conns |-> "idle"]
    /\ deviceConnections = <<>>
    /\ adminConnections = <<>>
    /\ tasks = {}
    /\ scans = {}
    /\ status = [d \in KnownIds |-> "offline"]
    /\ device_logs = [r \in KnownIds \X EventTypes |-> 0]
    /\ sent = [c \in Conns |-> <<>>]
    /\ offlinePublished = [d \in KnownIds |-> 0]
    /\ now = 0
    /\ nrecv = [c \in Conns |-> 0]
    /\ dispatched = <<>>
    /\ lastReg = [d \in AllIds |-> NoConn]
    /\ consoleErrors = 0
    /\ requests = [r \in Reqs |-> "none"]
    /\ is_used = FALSE
    /\ created = 0
    /\ exiting = "running"
    /\ last_seen = [d \in KnownIds |-> 0]
    /\ pings = [c \in Conns |-> 0]
    /\ content = <<>>
    /\ currentIndex = 0
    /\ isBlocked = FALSE
    /\ mounted = TRUE
    /\ fetching = 1
    /\ playerWs = "CONNECTING"
    /\ registers = 0
    /\ answer = "none"

\* wss.on('connection'): the handlers are attached and CONNECTED is sent
Connect(c) ==
    /\ readyState[c] = "idle"
    /\ \A b \in Conns : b < c => readyState[b] # "idle"
    /\ readyState' = [readyState EXCEPT ![c] = "OPEN"]
    /\ sent' = [sent EXCEPT ![c] = Append(@, Frame("CONNECTED", "", "", 0))]
    /\ UNCHANGED <<deviceConnections, adminConnections, tasks, scans, status,
                   device_logs, offlinePublished, now, nrecv, dispatched, lastReg>>
    /\ UNCHANGED <<consoleErrors, serverVars>>
    /\ UNCHANGED <<last_seen, pings, playerVars>>

\* ------------------------------------------------ ws.on('message') entry
RECURSIVE SumTo(_, _)
SumTo(f, n) == IF n = 0 THEN 0 ELSE f[n] + SumTo(f, n - 1)

CanReceive(c) == readyState[c] = "OPEN" /\ SumTo(nrecv, NConn) < MaxMsgs

NewTask(c, type, d, pc) ==
    [id |-> nrecv[c] + 1, ws |-> c, type |-> type, dev |-> d, pc |-> pc]

\* case 'DEVICE_REGISTER': handleDeviceRegister runs up to the devices lookup
RecvDeviceRegister(c, d) ==
    /\ CanReceive(c)
    /\ nrecv' = [nrecv EXCEPT ![c] = @ + 1]
    /\ tasks' = tasks \cup {NewTask(c, "DEVICE_REGISTER", d, "lookup")}
    /\ UNCHANGED <<readyState, deviceConnections, adminConnections, scans, status,
                   device_logs, sent, offlinePublished, now, dispatched, lastReg>>
    /\ UNCHANGED <<consoleErrors, serverVars>>
    /\ UNCHANGED <<last_seen, pings, playerVars>>

DeviceFoundIgnoringError(d, outcome) == d \in KnownIds
\* .single(): a row comes back only when the call succeeds and the row exists
DeviceFound(d, outcome) == outcome = "ok" /\ d \in KnownIds

NewDeviceConnection(t) ==
    [key |-> t.dev, ws |-> t.ws, lastSeen |-> now, tenant |-> tenant_id(t.dev)]

\* the lookup resolves: ERROR and return, or deviceConnections.set and the update
RegisterLookup(t, outcome) ==
    /\ t \in tasks /\ t.type = "DEVICE_REGISTER" /\ t.pc = "lookup"
    /\ IF ~DeviceFound(t.dev, outcome)
       THEN /\ sent' = Send(sent, t.ws, Frame("ERROR", "", "", 0))
            /\ tasks' = tasks \ {t}
            /\ UNCHANGED <<deviceConnections, lastReg, offlinePublished>>
       ELSE /\ deviceConnections' = MapSet(deviceConnections, NewDeviceConnection(t))
            /\ lastReg' = [lastReg EXCEPT ![t.dev] = t.ws]
            /\ offlinePublished' = [offlinePublished EXCEPT ![t.dev] = 0]
            /\ tasks' = (tasks \ {t}) \cup {[t EXCEPT !.pc = "update"]}
            /\ UNCHANGED sent
    /\ UNCHANGED <<readyState, adminConnections, scans, status, device_logs,
                   now, nrecv, dispatched>>
    /\ UNCHANGED <<consoleErrors, serverVars>>
    /\ UNCHANGED <<last_seen, pings, playerVars>>

\* devices.update({status: 'online'}) resolves; the device_logs insert starts
RegisterUpdate(t, outcome) ==
    /\ t \in tasks /\ t.type = "DEVICE_REGISTER" /\ t.pc = "update"
    /\ status' = IF outcome = "ok" THEN [status EXCEPT ![t.dev] = "online"] ELSE status
    /\ tasks' = (tasks \ {t}) \cup {[t EXCEPT !.pc = "log"]}
    /\ UNCHANGED <<readyState, deviceConnections, adminConnections, scans, device_logs,
                   sent, offlinePublished, now, nrecv, dispatched, lastReg>>
    /\ UNCHANGED <<consoleErrors, serverVars>>
    /\ last_seen' = IF outcome = "ok" THEN [last_seen EXCEPT ![t.dev] = @ + 1] ELSE last_seen
    /\ UNCHANGED <<pings, playerVars>>

\* the insert resolves; REGISTERED to the device, DEVICE_ONLINE to the admins
RegisterLog(t, outcome) ==
    /\ t \in tasks /\ t.type = "DEVICE_REGISTER" /\ t.pc = "log"
    /\ device_logs' = IF outcome = "ok" THEN Insert(device_logs, t.dev, "online")
                      ELSE device_logs
    /\ sent' = broadcastToAdmins(Send(sent, t.ws, Frame("REGISTERED", t.dev, "", 0)),
                                 Frame("DEVICE_ONLINE", t.dev, "", 0), tenant_id(t.dev))
    /\ tasks' = tasks \ {t}
    /\ UNCHANGED <<readyState, deviceConnections, adminConnections, scans, status,
                   offlinePublished, now, nrecv, dispatched, lastReg>>
    /\ UNCHANGED <<consoleErrors, serverVars>>
    /\ UNCHANGED <<last_seen, pings, playerVars>>

\* case 'ADMIN_REGISTER': handleAdminRegister has no await
RecvAdminRegister(c, userId) ==
    /\ CanReceive(c)
    /\ nrecv' = [nrecv EXCEPT ![c] = @ + 1]
    /\ adminConnections' = MapSet(adminConnections, [key |-> userId, ws |-> c])
    /\ sent' = Send(sent, c, Frame("REGISTERED", "", userId, 0))
    /\ UNCHANGED <<readyState, deviceConnections, tasks, scans, status, device_logs,
                   offlinePublished, now, dispatched, lastReg>>
    /\ UNCHANGED <<consoleErrors, serverVars>>
    /\ UNCHANGED <<last_seen, pings, playerVars>>

TouchNothing(m, d) == m
\* connection.lastSeen = new Date() on the entry deviceConnections.get(deviceId)
Touch(m, d) == [m EXCEPT ![IndexOf(m, d)].lastSeen = now]

\* case 'HEARTBEAT': handleHeartbeat up to the devices update
RecvHeartbeat(c, d) ==
    /\ CanReceive(c)
    /\ nrecv' = [nrecv EXCEPT ![c] = @ + 1]
    /\ IF MapHas(deviceConnections, d)
       THEN /\ deviceConnections' = Touch(deviceConnections, d)
            /\ tasks' = tasks \cup {NewTask(c, "HEARTBEAT", d, "update")}
       ELSE UNCHANGED <<deviceConnections, tasks>>
    /\ UNCHANGED <<readyState, adminConnections, scans, status, device_logs, sent,
                   offlinePublished, now, dispatched, lastReg>>
    /\ UNCHANGED <<consoleErrors, serverVars>>
    /\ UNCHANGED <<last_seen, pings, playerVars>>

\* the last_seen update resolves; HEARTBEAT_ACK
HeartbeatUpdate(t, outcome) ==
    /\ t \in tasks /\ t.type = "HEARTBEAT" /\ t.pc = "update"
    /\ sent' = Send(sent, t.ws, Frame("HEARTBEAT_ACK", "", "", 0))
    /\ tasks' = tasks \ {t}
    /\ UNCHANGED <<readyState, deviceConnections, adminConnections, scans, status,
                   device_logs, offlinePublished, now, nrecv, dispatched, lastReg>>
    /\ UNCHANGED <<consoleErrors, serverVars>>
    /\ last_seen' = IF outcome = "ok" /\ t.dev \in KnownIds
                    THEN [last_seen EXCEPT ![t.dev] = @ + 1] ELSE last_seen
    /\ UNCHANGED <<pings, playerVars>>

TelemetryTypes == {"PLAYBACK_LOG", "DEVICE_STATUS", "SCREENSHOT_RESULT"}
UpdateType(type) ==
    CASE type = "PLAYBACK_LOG" -> "PLAYBACK_UPDATE"
      [] type = "DEVICE_STATUS" -> "DEVICE_STATUS_UPDATE"
      [] type = "SCREENSHOT_RESULT" -> "SCREENSHOT_READY"

\* case 'PLAYBACK_LOG' | 'DEVICE_STATUS' | 'SCREENSHOT_RESULT': up to the insert/upsert;
\* DEVICE_STATUS without stats throws on stats.cpu and is caught
RecvTelemetry(c, type, d, hasStats) ==
    /\ CanReceive(c)
    /\ type \in TelemetryTypes
    /\ nrecv' = [nrecv EXCEPT ![c] = @ + 1]
    /\ tasks' = IF type = "DEVICE_STATUS" /\ ~hasStats THEN tasks
                ELSE tasks \cup {NewTask(c, type, d, "persist")}
    /\ UNCHANGED <<readyState, deviceConnections, adminConnections, scans, status,
                   device_logs, sent, offlinePublished, now, dispatched, lastReg>>
    /\ consoleErrors' = IF type = "DEVICE_STATUS" /\ ~hasStats THEN consoleErrors + 1
                        ELSE consoleErrors
    /\ UNCHANGED serverVars
    /\ UNCHANGED <<last_seen, pings, playerVars>>

\* the insert/upsert resolves; the devices select starts
TelemetryPersist(t, outcome) ==
    /\ t \in tasks /\ t.type \in TelemetryTypes /\ t.pc = "persist"
    /\ tasks' = (tasks \ {t}) \cup {[t EXCEPT !.pc = "select"]}
    /\ UNCHANGED <<readyState, deviceConnections, adminConnections, scans, status,
                   device_logs, sent, offlinePublished, now, nrecv, dispatched, lastReg>>
    /\ UNCHANGED <<consoleErrors, serverVars>>
    /\ UNCHANGED <<last_seen, pings, playerVars>>

\* the select resolves; if (device) broadcastToAdmins
TelemetrySelect(t, outcome) ==
    /\ t \in tasks /\ t.type \in TelemetryTypes /\ t.pc = "select"
    /\ sent' = IF DeviceFound(t.dev, outcome)
               THEN broadcastToAdmins(sent, Frame(UpdateType(t.type), t.dev, "", 0),
                                      tenant_id(t.dev))
               ELSE sent
    /\ tasks' = tasks \ {t}
    /\ UNCHANGED <<readyState, deviceConnections, adminConnections, scans, status,
                   device_logs, offlinePublished, now, nrecv, dispatched, lastReg>>
    /\ UNCHANGED <<consoleErrors, serverVars>>
    /\ UNCHANGED <<last_seen, pings, playerVars>>

UnknownAnsweredError(s, c) == Send(s, c, Frame("ERROR", "", "", 0))
\* what the default branch and the catch of the listener write to the socket: nothing
UnknownAnswered(s, c) == s

\* a frame JSON.parse rejects, or one whose type no case matches: a console line
RecvUnknown(c) ==
    /\ CanReceive(c)
    /\ nrecv' = [nrecv EXCEPT ![c] = @ + 1]
    /\ consoleErrors' = consoleErrors + 1
    /\ sent' = UnknownAnswered(sent, c)
    /\ UNCHANGED <<readyState, deviceConnections, adminConnections, tasks, scans, status,
                   device_logs, offlinePublished, now, dispatched, lastReg, serverVars>>
    /\ UNCHANGED <<last_seen, pings, playerVars>>

\* ---------------------------------------------------------- ws.on('close')
\* the peer goes away: readyState leaves OPEN before 'close' is emitted
TransportClose(c) ==
    /\ readyState[c] = "OPEN"
    /\ readyState' = [readyState EXCEPT ![c] = "CLOSING"]
    /\ UNCHANGED <<deviceConnections, adminConnections, tasks, scans, status, device_logs,
                   sent, offlinePublished, now, nrecv, dispatched, lastReg>>
    /\ UNCHANGED <<consoleErrors, serverVars>>
    /\ UNCHANGED <<last_seen, pings, playerVars>>

CloseMatchAny(connection, ws) == TRUE
\* if (connection.ws === ws)
CloseMatch(connection, ws) == connection.ws = ws

\* index of the entry the for..of loop deletes before its break; 0 if none
FirstMatch(m, ws) ==
    IF \E i \in 1..Len(m) : CloseMatch(m[i], ws)
    THEN CHOOSE i \in 1..Len(m) :
            CloseMatch(m[i], ws) /\ \A j \in 1..(i - 1) : ~CloseMatch(m[j], ws)
    ELSE 0

DeleteAt(m, i) == IF i = 0 THEN m ELSE RemoveAt(m, i)

\* a Map iterator suspended at entry pos keeps its place when entry i goes away
AfterDelete(ss, i) ==
    {[s EXCEPT !.pos = IF i # 0 /\ s.pos >= i THEN s.pos - 1 ELSE s.pos] : s \in ss}

OnClose(c) ==
    /\ readyState[c] = "CLOSING"
    /\ readyState' = [readyState EXCEPT ![c] = "CLOSED"]
    /\ deviceConnections' = DeleteAt(deviceConnections, FirstMatch(deviceConnections, c))
    /\ scans' = AfterDelete(scans, FirstMatch(deviceConnections, c))
    /\ adminConnections' = DeleteAt(adminConnections, FirstMatch(adminConnections, c))
    /\ UNCHANGED <<tasks, status, device_logs, sent, offlinePublished, now, nrecv,
                   dispatched, lastReg>>
    /\ UNCHANGED <<consoleErrors, serverVars>>
    /\ UNCHANGED <<last_seen, pings, playerVars>>

\* ------------------------------------------------------ broadcastToDevice
\* the message is opaque to broadcastToDevice; the runs dispatch one kind
Commands == {"BLOCK_DEVICE"}

DeliverableIfPresent(d) == MapHas(deviceConnections, d)
\* if (connection && connection.ws.readyState === connection.ws.OPEN)
Deliverable(d) ==
    /\ MapHas(deviceConnections, d)
    /\ readyState[MapGet(deviceConnections, d).ws] = "OPEN"

SendCommandToOpen(s, d, f) ==
    [c \in Conns |-> IF readyState[c] = "OPEN" THEN Append(s[c], f) ELSE s[c]]
\* connection.ws.send(JSON.stringify(message))
SendCommand(s, d, f) == Send(s, MapGet(deviceConnections, d).ws, f)

broadcastToDevice(d, cmd) ==
    /\ Len(dispatched) < MaxCmds
    /\ LET n == Len(dispatched) + 1
           present == MapHas(deviceConnections, d)
           target == IF present THEN MapGet(deviceConnections, d).ws ELSE NoConn
       IN  /\ sent' = IF Deliverable(d) THEN SendCommand(sent, d, Frame(cmd, d, "", n))
                      ELSE sent
           /\ dispatched' = Append(dispatched,
                  [dev |-> d, cmd |-> cmd, present |-> present, ws |-> target,
                   open |-> present /\ readyState[target] = "OPEN",
                   delivered |-> Deliverable(d)])
    /\ UNCHANGED <<readyState, deviceConnections, adminConnections, tasks, scans, status,
                   device_logs, offlinePublished, now, nrecv, lastReg>>
    /\ UNCHANGED <<consoleErrors, serverVars>>
    /\ UNCHANGED <<last_seen, pings, playerVars>>

\* ------------------------------------------------ cleanup of offline devices
\* if (now - connection.lastSeen > timeout)
Stale(connection, tnow) == tnow - connection.lastSeen > timeout

\* index of the next entry after pos the loop stops at; 0 when the loop ends
NextStale(m, pos, tnow) ==
    IF \E i \in (pos + 1)..Len(m) : Stale(m[i], tnow)
    THEN CHOOSE i \in (pos + 1)..Len(m) :
            Stale(m[i], tnow) /\ \A j \in (pos + 1)..(i - 1) : ~Stale(m[j], tnow)
    ELSE 0

ScanAt(m, i, tnow) ==
    [now |-> tnow, pos |-> i, key |-> m[i].key, tenant |-> m[i].tenant, pc |-> "update"]

\* the interval fires: the loop runs to its first stale entry and awaits the update
Tick ==
    /\ now < MaxTicks * Period
    /\ now' = now + Period
    /\ LET i == NextStale(deviceConnections, 0, now')
       IN  scans' = IF i = 0 THEN scans
                    ELSE scans \cup {ScanAt(deviceConnections, i, now')}
    /\ UNCHANGED <<readyState, deviceConnections, adminConnections, tasks, status,
                   device_logs, sent, offlinePublished, nrecv, dispatched, lastReg>>
    /\ UNCHANGED <<consoleErrors, serverVars>>
    /\ UNCHANGED <<last_seen, pings, playerVars>>

\* devices.update({status: 'offline'}) resolves; the device_logs insert starts
ScanUpdate(s, outcome) ==
    /\ s \in scans /\ s.pc = "update"
    /\ status' = IF outcome = "ok" THEN [status EXCEPT ![s.key] = "offline"] ELSE status
    /\ scans' = (scans \ {s}) \cup {[s EXCEPT !.pc = "log"]}
    /\ UNCHANGED <<readyState, deviceConnections, adminConnections, tasks, device_logs,
                   sent, offlinePublished, now, nrecv, dispatched, lastReg>>
    /\ UNCHANGED <<consoleErrors, serverVars>>
    /\ UNCHANGED <<last_seen, pings, playerVars>>

\* the insert resolves; delete, DEVICE_OFFLINE, and on to the next stale entry
ScanLog(s, outcome) ==
    /\ s \in scans /\ s.pc = "log"
    /\ device_logs' = IF outcome = "ok" THEN Insert(device_logs, s.key, "offline")
                      ELSE device_logs
    /\ LET i == IF MapHas(deviceConnections, s.key)
                THEN IndexOf(deviceConnections, s.key) ELSE 0
           m == MapDelete(deviceConnections, s.key)
           pos == IF i # 0 /\ s.pos >= i THEN s.pos - 1 ELSE s.pos
           nxt == NextStale(m, pos, s.now)
       IN  /\ deviceConnections' = m
           /\ scans' = AfterDelete(scans \ {s}, i) \cup
                       (IF nxt = 0 THEN {} ELSE {ScanAt(m, nxt, s.now)})
    /\ sent' = broadcastToAdmins(sent, Frame("DEVICE_OFFLINE", s.key, "", 0), s.tenant)
    /\ offlinePublished' = [offlinePublished EXCEPT ![s.key] = @ + 1]
    /\ UNCHANGED <<readyState, adminConnections, tasks, status, now, nrecv, dispatched,
                   lastReg>>
    /\ UNCHANGED <<consoleErrors, serverVars>>
    /\ UNCHANGED <<last_seen, pings, playerVars>>

\* ------------------------------------------ keepalive of setupWebSocket
ProbedRefreshed(m) ==
    [i \in 1..Len(m) |->
        IF readyState[m[i].ws] = "OPEN" THEN [m[i] EXCEPT !.lastSeen = now] ELSE m[i]]
\* what a probe leaves of the registry: ws.ping() only, and 'pong' has no listener
Probed(m) == m

\* the 30-second interval fires: every OPEN client of the server is pinged
Keepalive ==
    /\ \A c \in Conns : pings[c] < MaxPings
    /\ pings' = [c \in Conns |-> IF readyState[c] = "OPEN" THEN pings[c] + 1 ELSE pings[c]]
    /\ deviceConnections' = Probed(deviceConnections)
    /\ UNCHANGED <<readyState, adminConnections, tasks, scans, status, device_logs, sent,
                   offlinePublished, now, nrecv, dispatched, lastReg, consoleErrors,
                   serverVars, last_seen, playerVars>>

\* ------------------------------------------- server.js: the WebSocket side
\* the variant of server.js keeps the bare socket under the deviceId
StatusFrame(d, st) ==
    [type |-> "DEVICE_STATUS_UPDATE", dev |-> d, user |-> "", n |-> 0, status |-> st]

\* broadcastToAdmin(message): wss.clients.forEach, every OPEN socket of the server
broadcastToAdmin(s, f) ==
    [c \in Conns |-> IF readyState[c] = "OPEN" THEN Append(s[c], f) ELSE s[c]]

\* data.type === 'DEVICE_REGISTER': deviceConnections.set, then the status update
SrvRecvDeviceRegister(c, d) ==
    /\ CanReceive(c)
    /\ nrecv' = [nrecv EXCEPT ![c] = @ + 1]
    /\ deviceConnections' = MapSet(deviceConnections, [key |-> d, ws |-> c])
    /\ lastReg' = [lastReg EXCEPT ![d] = c]
    /\ tasks' = tasks \cup {NewTask(c, "DEVICE_REGISTER", d, "srv_update")}
    /\ UNCHANGED <<readyState, adminConnections, scans, status, device_logs, sent,
                   offlinePublished, now, dispatched, consoleErrors, serverVars>>
    /\ UNCHANGED <<last_seen, pings, playerVars>>

\* devices.update({status: 'online'}) resolves; DEVICE_STATUS_UPDATE to the clients
SrvRegisterUpdate(t, outcome) ==
    /\ t \in tasks /\ t.type = "DEVICE_REGISTER" /\ t.pc = "srv_update"
    /\ status' = IF outcome = "ok" /\ t.dev \in KnownIds
                 THEN [status EXCEPT ![t.dev] = "online"] ELSE status
    /\ sent' = broadcastToAdmin(sent, StatusFrame(t.dev, "online"))
    /\ tasks' = tasks \ {t}
    /\ UNCHANGED <<readyState, deviceConnections, adminConnections, scans, device_logs,
                   offlinePublished, now, nrecv, dispatched, lastReg, consoleErrors,
                   serverVars>>
    /\ UNCHANGED <<last_seen, pings, playerVars>>

\* ws.on('close') of server.js: the status update is built but never awaited, so no
\* request leaves the process; the broadcast goes out
SrvOnClose(c) ==
    /\ readyState[c] = "CLOSING"
    /\ readyState' = [readyState EXCEPT ![c] = "CLOSED"]
    /\ LET i == FirstMatch(deviceConnections, c)
       IN  /\ deviceConnections' = DeleteAt(deviceConnections, i)
           /\ sent' = IF i = 0 THEN sent
                      ELSE broadcastToAdmin(sent, StatusFrame(deviceConnections[i].key,
                                                              "offline"))
    /\ UNCHANGED <<adminConnections, tasks, scans, status, device_logs, offlinePublished,
                   now, nrecv, dispatched, lastReg, consoleErrors, serverVars>>
    /\ UNCHANGED <<last_seen, pings, playerVars>>

\* --------------------------------- server.js: POST /api/devices/:id/toggle-block
ToggleTasks == {t \in tasks : t.type = "TOGGLE_BLOCK"}

\* the route is entered and awaits the select of the current status
PostToggleBlock(d) ==
    /\ Len(dispatched) + Cardinality(ToggleTasks) < MaxCmds
    /\ tasks' = tasks \cup
           {[id |-> Len(dispatched) + Cardinality(ToggleTasks) + 1, ws |-> NoConn,
             type |-> "TOGGLE_BLOCK", dev |-> d, pc |-> "select", newStatus |-> ""]}
    /\ UNCHANGED <<readyState, deviceConnections, adminConnections, scans, status,
                   device_logs, sent, offlinePublished, now, nrecv, dispatched, lastReg,
                   consoleErrors, serverVars>>
    /\ UNCHANGED <<last_seen, pings, playerVars>>

\* the select resolves: 404, or newStatus is computed and the update awaited
ToggleSelect(t, outcome) ==
    /\ t \in ToggleTasks /\ t.pc = "select"
    /\ tasks' = IF ~DeviceFound(t.dev, outcome) THEN tasks \ {t}
                ELSE (tasks \ {t}) \cup
                     {[t EXCEPT !.pc = "update",
                                !.newStatus = IF status[t.dev] = "blocked" THEN "online"
                                              ELSE "blocked"]}
    /\ UNCHANGED <<readyState, deviceConnections, adminConnections, scans, status,
                   device_logs, sent, offlinePublished, now, nrecv, dispatched, lastReg,
                   consoleErrors, serverVars>>
    /\ UNCHANGED <<last_seen, pings, playerVars>>

\* sendToDevice(deviceId, message)
sendToDevice(s, d, f) == IF Deliverable(d) THEN SendCommand(s, d, f) ELSE s

\* the update resolves: 400, or the command to the device and the broadcast
ToggleUpdate(t, outcome) ==
    /\ t \in ToggleTasks /\ t.pc = "update"
    /\ tasks' = tasks \ {t}
    /\ IF outcome # "ok"
       THEN UNCHANGED <<status, sent, dispatched>>
       ELSE LET cmd == IF t.newStatus = "blocked" THEN "BLOCK_DEVICE" ELSE "UNBLOCK_DEVICE"
                present == MapHas(deviceConnections, t.dev)
                target == IF present THEN MapGet(deviceConnections, t.dev).ws ELSE NoConn
            IN  /\ status' = [status EXCEPT ![t.dev] = t.newStatus]
                /\ sent' = broadcastToAdmin(
                               sendToDevice(sent, t.dev, Frame(cmd, t.dev, "", t.id)),
                               StatusFrame(t.dev, t.newStatus))
                /\ dispatched' = Append(dispatched,
                       [dev |-> t.dev, cmd |-> cmd, present |-> present, ws |-> target,
                        open |-> present /\ readyState[target] = "OPEN",
                        delivered |-> Deliverable(t.dev)])
    /\ UNCHANGED <<readyState, deviceConnections, adminConnections, scans, device_logs,
                   offlinePublished, now, nrecv, lastReg, consoleErrors, serverVars>>
    /\ UNCHANGED <<last_seen, pings, playerVars>>

\* ------------------------------------ server.js: POST /api/register-device
\* the calls of a run carry the one pairing token that generate-pairing-token issued
\* the route is entered: 400 without token or deviceName, else the token select
PostRegisterDevice(r, hasBody) ==
    /\ requests[r] = "none"
    /\ \A q \in Reqs : q < r => requests[q] # "none"
    /\ requests' = [requests EXCEPT ![r] = IF hasBody THEN "select" ELSE "rejected"]
    /\ UNCHANGED <<readyState, deviceConnections, adminConnections, tasks, scans, status,
                   device_logs, sent, offlinePublished, now, nrecv, dispatched, lastReg,
                   consoleErrors, is_used, created, exiting>>
    /\ UNCHANGED <<last_seen, pings, playerVars>>

\* .eq('token', token).eq('is_used', false).single()
TokenFound(outcome) == outcome = "ok" /\ ~is_used

\* the select resolves: 400 'Token inválido', or the devices insert is awaited
TokenSelect(r, outcome) ==
    /\ requests[r] = "select"
    /\ requests' = [requests EXCEPT ![r] = IF TokenFound(outcome) THEN "insert"
                                          ELSE "rejected"]
    /\ UNCHANGED <<readyState, deviceConnections, adminConnections, tasks, scans, status,
                   device_logs, sent, offlinePublished, now, nrecv, dispatched, lastReg,
                   consoleErrors, is_used, created, exiting>>
    /\ UNCHANGED <<last_seen, pings, playerVars>>

\* the insert of the new devices row resolves: 400, or the token update is awaited
DeviceInsert(r, outcome) ==
    /\ requests[r] = "insert"
    /\ created' = IF outcome = "ok" THEN created + 1 ELSE created
    /\ requests' = [requests EXCEPT ![r] = IF outcome = "ok" THEN "mark" ELSE "rejected"]
    /\ UNCHANGED <<readyState, deviceConnections, adminConnections, tasks, scans, status,
                   device_logs, sent, offlinePublished, now, nrecv, dispatched, lastReg,
                   consoleErrors, is_used, exiting>>
    /\ UNCHANGED <<last_seen, pings, playerVars>>

\* update({ is_used: true }) resolves, unchecked; DEVICE_REGISTERED and the 200 answer
TokenMark(r, outcome) ==
    /\ requests[r] = "mark"
    /\ is_used' = IF outcome = "ok" THEN TRUE ELSE is_used
    /\ sent' = broadcastToAdmin(sent, Frame("DEVICE_REGISTERED", "", "", r))
    /\ requests' = [requests EXCEPT ![r] = "created"]
    /\ UNCHANGED <<readyState, deviceConnections, adminConnections, tasks, scans, status,
                   device_logs, offlinePublished, now, nrecv, dispatched, lastReg,
                   consoleErrors, created, exiting>>
    /\ UNCHANGED <<last_seen, pings, playerVars>>

\* ------------------------------------------------------ process.on('SIGINT')
\* server.close(callback): the server stops listening; the callback runs once every
\* connection of the server has ended
Sigint ==
    /\ exiting = "running"
    /\ exiting' = "closing"
    /\ UNCHANGED <<readyState, deviceConnections, adminConnections, tasks, scans, status,
                   device_logs, sent, offlinePublished, now, nrecv, dispatched, lastReg,
                   consoleErrors, requests, is_used, created>>
    /\ UNCHANGED <<last_seen, pings, playerVars>>

\* the last connection has ended: the callback calls process.exit(0)
ServerClosed ==
    /\ exiting = "closing"
    /\ \A c \in Conns : readyState[c] \in {"idle", "CLOSED"}
    /\ exiting' = "exited"
    /\ UNCHANGED <<readyState, deviceConnections, adminConnections, tasks, scans, status,
                   device_logs, sent, offlinePublished, now, nrecv, dispatched, lastReg,
                   consoleErrors, requests, is_used, created>>
    /\ UNCHANGED <<last_seen, pings, playerVars>>

\* ---------------------------------------- AdminDashboard.tsx: PlayerPage
\* response.data.content of n items, each by its position in display order
Items(n) == [i \in 1..n |-> i]

\* content[currentIndex] is undefined and .duration / .file_url is read from it: the
\* slideshow effect, or the render when no block screen is up, throws
Throws(list, idx, blocked) == list # <<>> /\ ~blocked /\ idx >= Len(list)

\* an error thrown in an effect or in render takes PlayerPage out of the tree; the
\* cleanup of the mount effect closes the socket
Unmount(ws) == IF ws \in {"CONNECTING", "OPEN"} THEN "CLOSING" ELSE ws

\* fetchContent resumes: setContent(response.data.content || []), or setError
FetchResolved(outcome, n) ==
    /\ fetching > 0
    /\ fetching' = fetching - 1
    /\ LET list == IF outcome = "ok" /\ mounted THEN Items(n) ELSE content
       IN  /\ content' = list
           /\ mounted' = (mounted /\ ~Throws(list, currentIndex, isBlocked))
           /\ playerWs' = IF mounted /\ Throws(list, currentIndex, isBlocked)
                          THEN Unmount(playerWs) ELSE playerWs
    /\ UNCHANGED <<currentIndex, isBlocked, registers, answer>>
    /\ UNCHANGED <<readyState, deviceConnections, adminConnections, tasks, scans, status,
                   device_logs, sent, offlinePublished, now, nrecv, dispatched, lastReg,
                   consoleErrors, serverVars, last_seen, pings>>

\* the setTimeout of startSlideshow fires: on to the next item, from the last to 0
TimerFires ==
    /\ mounted /\ content # <<>> /\ ~isBlocked
    /\ currentIndex' = IF currentIndex = Len(content) - 1 THEN 0 ELSE currentIndex + 1
    /\ UNCHANGED <<content, isBlocked, mounted, fetching, playerWs, registers, answer>>
    /\ UNCHANGED <<readyState, deviceConnections, adminConnections, tasks, scans, status,
                   device_logs, sent, offlinePublished, now, nrecv, dispatched, lastReg,
                   consoleErrors, serverVars, last_seen, pings>>

\* ws.onopen: DEVICE_REGISTER is sent
PlayerOpen ==
    /\ playerWs = "CONNECTING"
    /\ registers < MaxRegisters
    /\ playerWs' = "OPEN"
    /\ registers' = registers + 1
    /\ answer' = "none"
    /\ UNCHANGED <<content, currentIndex, isBlocked, mounted, fetching>>
    /\ UNCHANGED <<readyState, deviceConnections, adminConnections, tasks, scans, status,
                   device_logs, sent, offlinePublished, now, nrecv, dispatched, lastReg,
                   consoleErrors, serverVars, last_seen, pings>>

\* what handleDeviceRegister writes back for the deviceId of the page
RegisterAnswer(d, outcome) == IF DeviceFound(d, outcome) THEN "REGISTERED" ELSE "ERROR"

\* ws.onmessage with that answer: the switch has no case for it
PlayerAnswered(d, outcome) ==
    /\ playerWs = "OPEN"
    /\ answer = "none"
    /\ answer' = RegisterAnswer(d, outcome)
    /\ UNCHANGED <<content, currentIndex, isBlocked, mounted, fetching, playerWs,
                   registers>>
    /\ UNCHANGED <<readyState, deviceConnections, adminConnections, tasks, scans, status,
                   device_logs, sent, offlinePublished, now, nrecv, dispatched, lastReg,
                   consoleErrors, serverVars, last_seen, pings>>

\* ws.onmessage, case 'CONTENT_UPDATE' with action 'refresh': fetchContent starts
PlayerContentUpdate ==
    /\ playerWs = "OPEN"
    /\ fetching < MaxFetches
    /\ fetching' = fetching + 1
    /\ UNCHANGED <<content, currentIndex, isBlocked, mounted, playerWs, registers, answer>>
    /\ UNCHANGED <<readyState, deviceConnections, adminConnections, tasks, scans, status,
                   device_logs, sent, offlinePublished, now, nrecv, dispatched, lastReg,
                   consoleErrors, serverVars, last_seen, pings>>

\* ws.onmessage, case 'BLOCK_DEVICE' (blocked) and case 'UNBLOCK_DEVICE'
PlayerBlocked(blocked) ==
    /\ playerWs = "OPEN"
    /\ mounted
    /\ isBlocked # blocked
    /\ isBlocked' = blocked
    /\ mounted' = ~Throws(content, currentIndex, blocked)
    /\ playerWs' = IF Throws(content, currentIndex, blocked) THEN Unmount(playerWs)
                   ELSE playerWs
    /\ UNCHANGED <<content, currentIndex, fetching, registers, answer>>
    /\ UNCHANGED <<readyState, deviceConnections, adminConnections, tasks, scans, status,
                   device_logs, sent, offlinePublished, now, nrecv, dispatched, lastReg,
                   consoleErrors, serverVars, last_seen, pings>>

\* ws.onclose, after a lost or refused connection or the socket's own close(): the
\* 3-second retry timer is set
PlayerOnClose ==
    /\ playerWs \in {"CONNECTING", "OPEN", "CLOSING"}
    /\ playerWs' = "CLOSED"
    /\ UNCHANGED <<content, currentIndex, isBlocked, mounted, fetching, registers, answer>>
    /\ UNCHANGED <<readyState, deviceConnections, adminConnections, tasks, scans, status,
                   device_logs, sent, offlinePublished, now, nrecv, dispatched, lastReg,
                   consoleErrors, serverVars, last_seen, pings>>

\* the retry timer fires: setupWebSocket opens a new socket
PlayerRetry ==
    /\ playerWs = "CLOSED"
    /\ playerWs' = "CONNECTING"
    /\ UNCHANGED <<content, currentIndex, isBlocked, mounted, fetching, registers, answer>>
    /\ UNCHANGED <<readyState, deviceConnections, adminConnections, tasks, scans, status,
                   device_logs, sent, offlinePublished, now, nrecv, dispatched, lastReg,
                   consoleErrors, serverVars, last_seen, pings>>

\* ------------------------------------------------------- specifications
\* sessions and registration: connect, DEVICE_REGISTER, close
Next ==
    \/ \E c \in Conns : Connect(c)
    \/ \E c \in Conns, d \in CoreIds : RecvDeviceRegister(c, d)
    \/ \E t \in tasks, o \in StoreOutcomes : RegisterLookup(t, o)
    \/ \E t \in tasks : RegisterUpdate(t, "ok")
    \/ \E t \in tasks : RegisterLog(t, "ok")
    \/ \E c \in Conns : TransportClose(c)
    \/ \E c \in Conns : OnClose(c)

Spec == Init /\ [][Next]_vars

\* device "d1" coming and going while the control layer dispatches commands
NextDispatch ==
    \/ \E c \in Conns : Connect(c)
    \/ \E c \in Conns : RecvDeviceRegister(c, "d1")
    \/ \E t \in tasks : RegisterLookup(t, "ok")
    \/ \E t \in tasks : RegisterUpdate(t, "ok")
    \/ \E t \in tasks : RegisterLog(t, "ok")
    \/ \E c \in Conns : TransportClose(c)
    \/ \E c \in Conns : OnClose(c)
    \/ \E d \in CoreIds, cmd \in Commands : broadcastToDevice(d, cmd)

SpecDispatch == Init /\ [][NextDispatch]_vars

\* the same with administrators registering and playback telemetry coming in
NextObservers ==
    \/ Next
    \/ \E c \in Conns, u \in UserIds : RecvAdminRegister(c, u)
    \/ \E c \in Conns : RecvTelemetry(c, "PLAYBACK_LOG", "d1", TRUE)
    \/ \E t \in tasks : TelemetryPersist(t, "ok")
    \/ \E t \in tasks, o \in StoreOutcomes : TelemetrySelect(t, o)

SpecObservers == Init /\ [][NextObservers]_vars

\* devices, heartbeats and the cleanup interval on the clock
NextMonitor ==
    \/ \E c \in Conns : Connect(c)
    \/ \E c \in Conns, d \in KnownIds : RecvDeviceRegister(c, d)
    \/ \E t \in tasks : RegisterLookup(t, "ok")
    \/ \E t \in tasks : RegisterUpdate(t, "ok")
    \/ \E t \in tasks : RegisterLog(t, "ok")
    \/ \E c \in Conns, d \in KnownIds : RecvHeartbeat(c, d)
    \/ \E t \in tasks : HeartbeatUpdate(t, "ok")
    \/ \E c \in Conns : TransportClose(c)
    \/ \E c \in Conns : OnClose(c)
    \/ Tick
    \/ \E s \in scans : ScanUpdate(s, "ok")
    \/ \E s \in scans : ScanLog(s, "ok")

SpecMonitor == Init /\ [][NextMonitor]_vars

\* registrations among frames the listener cannot use
NextFrames ==
    \/ Next
    \/ \E c \in Conns : RecvUnknown(c)

SpecFrames == Init /\ [][NextFrames]_vars

\* heartbeats and telemetry of "d1" with a backing store that may fail
NextTelemetry ==
    \/ \E c \in Conns : Connect(c)
    \/ \E c \in Conns : RecvDeviceRegister(c, "d1")
    \/ \E t \in tasks : RegisterLookup(t, "ok")
    \/ \E t \in tasks : RegisterUpdate(t, "ok")
    \/ \E t \in tasks : RegisterLog(t, "ok")
    \/ \E c \in Conns : RecvHeartbeat(c, "d1")
    \/ \E t \in tasks, o \in StoreOutcomes : HeartbeatUpdate(t, o)
    \/ \E c \in Conns, type \in TelemetryTypes, hasStats \in BOOLEAN :
          RecvTelemetry(c, type, "d1", hasStats)
    \/ \E t \in tasks, o \in StoreOutcomes : TelemetryPersist(t, o)
    \/ \E t \in tasks, o \in StoreOutcomes : TelemetrySelect(t, o)
    \/ \E c \in Conns : TransportClose(c)
    \/ \E c \in Conns : OnClose(c)

SpecTelemetry == Init /\ [][NextTelemetry]_vars

\* device "d1" falling silent under the eyes of an administrator, connections staying up
NextEvict ==
    \/ \E c \in Conns : Connect(c)
    \/ \E c \in Conns : RecvAdminRegister(c, "u1")
    \/ \E c \in Conns : RecvDeviceRegister(c, "d1")
    \/ \E t \in tasks : RegisterLookup(t, "ok")
    \/ \E t \in tasks : RegisterUpdate(t, "ok")
    \/ \E t \in tasks : RegisterLog(t, "ok")
    \/ Tick
    \/ \E s \in scans, o \in StoreOutcomes : ScanUpdate(s, o)
    \/ \E s \in scans, o \in StoreOutcomes : ScanLog(s, o)

SpecEvict == Init /\ [][NextEvict]_vars

\* server.js: device "d1" coming and going while an administrator toggles its block
NextBlock ==
    \/ \E c \in Conns : Connect(c)
    \/ \E c \in Conns : SrvRecvDeviceRegister(c, "d1")
    \/ \E t \in tasks, o \in StoreOutcomes : SrvRegisterUpdate(t, o)
    \/ \E c \in Conns : TransportClose(c)
    \/ \E c \in Conns : SrvOnClose(c)
    \/ PostToggleBlock("d1")
    \/ \E t \in tasks : ToggleSelect(t, "ok")
    \/ \E t \in tasks : ToggleUpdate(t, "ok")

SpecBlock == Init /\ [][NextBlock]_vars

\* server.js: pairing calls with one token while dashboards connect and leave
NextPairing ==
    \/ \E c \in Conns : Connect(c)
    \/ \E c \in Conns : TransportClose(c)
    \/ \E c \in Conns : SrvOnClose(c)
    \/ \E r \in Reqs, hasBody \in BOOLEAN : PostRegisterDevice(r, hasBody)
    \/ \E r \in Reqs, o \in StoreOutcomes : TokenSelect(r, o)
    \/ \E r \in Reqs, o \in StoreOutcomes : DeviceInsert(r, o)
    \/ \E r \in Reqs, o \in StoreOutcomes : TokenMark(r, o)

SpecPairing == Init /\ [][NextPairing]_vars

\* device "d1", the cleanup interval and a SIGINT; a server that was closed accepts
\* no connection, a process that has exited takes no step
NextShutdown ==
    /\ exiting # "exited"
    /\ \/ exiting = "running" /\ \E c \in Conns : Connect(c)
       \/ \E c \in Conns : RecvDeviceRegister(c, "d1")
       \/ \E t \in tasks : RegisterLookup(t, "ok")
       \/ \E t \in tasks : RegisterUpdate(t, "ok")
       \/ \E t \in tasks : RegisterLog(t, "ok")
       \/ \E c \in Conns : TransportClose(c)
       \/ \E c \in Conns : OnClose(c)
       \/ Tick
       \/ \E s \in scans : ScanUpdate(s, "ok")
       \/ \E s \in scans : ScanLog(s, "ok")
       \/ Sigint
       \/ ServerClosed

SpecShutdown == Init /\ [][NextShutdown]_vars

\* device "d1" registered and sending heartbeats and telemetry, or only answering the
\* keepalive probes, while the cleanup interval runs; connections stay up
NextLiveness ==
    \/ \E c \in Conns : Connect(c)
    \/ \E c \in Conns : RecvDeviceRegister(c, "d1")
    \/ \E t \in tasks : RegisterLookup(t, "ok")
    \/ \E t \in tasks : RegisterUpdate(t, "ok")
    \/ \E t \in tasks : RegisterLog(t, "ok")
    \/ \E c \in Conns, d \in KnownIds : RecvHeartbeat(c, d)
    \/ \E t \in tasks, o \in StoreOutcomes : HeartbeatUpdate(t, o)
    \/ \E c \in Conns, type \in TelemetryTypes : RecvTelemetry(c, type, "d1", TRUE)
    \/ \E t \in tasks : TelemetryPersist(t, "ok")
    \/ \E t \in tasks : TelemetrySelect(t, "ok")
    \/ Keepalive
    \/ Tick
    \/ \E s \in scans : ScanUpdate(s, "ok")
    \/ \E s \in scans : ScanLog(s, "ok")

SpecLiveness == Init /\ [][NextLiveness]_vars

\* device "d1" and heartbeats from any connection, on the clock of the cleanup
NextHeartbeat ==
    \/ \E c \in Conns : Connect(c)
    \/ \E c \in Conns : RecvDeviceRegister(c, "d1")
    \/ \E t \in tasks : RegisterLookup(t, "ok")
    \/ \E t \in tasks : RegisterUpdate(t, "ok")
    \/ \E t \in tasks : RegisterLog(t, "ok")
    \/ \E c \in Conns, d \in KnownIds : RecvHeartbeat(c, d)
    \/ \E t \in tasks, o \in StoreOutcomes : HeartbeatUpdate(t, o)
    \/ Tick
    \/ \E s \in scans : ScanUpdate(s, "ok")
    \/ \E s \in scans : ScanLog(s, "ok")

SpecHeartbeat == Init /\ [][NextHeartbeat]_vars

\* the player page of one device: slideshow, content refreshes, block screen, socket
NextPlayer ==
    \/ \E o \in StoreOutcomes, n \in 0..MaxLen : FetchResolved(o, n)
    \/ TimerFires
    \/ PlayerOpen
    \/ \E d \in CoreIds, o \in StoreOutcomes : PlayerAnswered(d, o)
    \/ PlayerContentUpdate
    \/ \E blocked \in BOOLEAN : PlayerBlocked(blocked)
    \/ PlayerOnClose
    \/ PlayerRetry

SpecPlayer == Init /\ [][NextPlayer]_vars

\* the same with timers that fire, a close event after every close() and a server that
\* accepts a connection in the end
SpecPlayerFair ==
    /\ Init /\ [][NextPlayer]_vars
    /\ WF_vars(PlayerRetry)
    /\ WF_vars(playerWs = "CLOSING" /\ PlayerOnClose)
    /\ SF_vars(PlayerOpen)

\* ------------------------------------------------------------ properties
Count(seq, f) == Cardinality({i \in 1..Len(seq) : seq[i] = f})
Max(S) == CHOOSE x \in S : \A y \in S : y <= x
EntriesFor(d) == {i \in 1..Len(deviceConnections) : deviceConnections[i].key = d}
Registered(d) == Frame("REGISTERED", d, "", 0)
Online(d) == Frame("DEVICE_ONLINE", d, "", 0)
Offline(d) == Frame("DEVICE_OFFLINE", d, "", 0)
Error == Frame("ERROR", "", "", 0)

\* C1: whatever the interleaving of DEVICE_REGISTER and close events on one deviceId,
\* the registry holds at most one entry for the id, and an entry it holds is the
\* channel of the connection that registered the id most recently.
C1_OneEntryOfLatestRegistration ==
    \A d \in AllIds :
        /\ Cardinality(EntriesFor(d)) <= 1
        /\ \A i \in EntriesFor(d) : deviceConnections[i].ws = lastReg[d]

\* connection 1 registered "d1" and stays open, connection 2 registered it afterwards
C1_Witness ==
    /\ Count(sent[1], Registered("d1")) > 0
    /\ readyState[1] = "OPEN"
    /\ lastReg["d1"] = 2
    /\ MapHas(deviceConnections, "d1")

\* C2: the close handler removes a registry entry only when the stored channel is the
\* closing channel itself, so the close of a superseded connection keeps the newer entry.
C2_StaleCloseKeepsNewerEntry ==
    [][\A c \in Conns :
          OnClose(c) =>
              \A i \in 1..Len(deviceConnections) :
                  deviceConnections[i].ws # c =>
                      \E j \in 1..Len(deviceConnections') :
                          deviceConnections'[j] = deviceConnections[i]]_vars

\* connection 1 registered "d1", was superseded by connection 2 and has closed
C2_Witness ==
    /\ Count(sent[1], Registered("d1")) > 0
    /\ readyState[1] = "CLOSED"
    /\ MapHas(deviceConnections, "d1")
    /\ MapGet(deviceConnections, "d1").ws = 2
    /\ readyState[2] = "OPEN"

\* C3 as stated: broadcastToDevice returns true exactly when the device is in the registry.
C3_DeliveredIffPresent ==
    \A k \in 1..Len(dispatched) : dispatched[k].delivered = dispatched[k].present

\* C3 amended: broadcastToDevice returns true exactly when the device is in the registry
\* and its registered channel is OPEN; for an id never registered it returns false.
C3_DeliveredIffPresentAndOpen ==
    \A k \in 1..Len(dispatched) :
        /\ dispatched[k].delivered = (dispatched[k].present /\ dispatched[k].open)
        /\ lastReg[dispatched[k].dev] = NoConn => ~dispatched[k].delivered

\* a command went to a device whose registry entry holds a channel that is no longer OPEN
C3_Witness ==
    \E k \in 1..Len(dispatched) :
        dispatched[k].present /\ ~dispatched[k].open /\ ~dispatched[k].delivered

\* C4: a dispatch to a connected device writes the command once, to the channel registered
\* for the device at the call and to no other; a dispatch to a disconnected device writes
\* nothing, and nothing is written for it later either.
C4_AtMostOnceNoQueue ==
    \A k \in 1..Len(dispatched) : \A c \in Conns :
        LET r == dispatched[k]
        IN  Count(sent[c], Frame(r.cmd, r.dev, "", k)) =
                IF r.present /\ r.open /\ c = r.ws THEN 1 ELSE 0

\* a command for "d1" was dropped, and "d1" has registered on an open channel since
C4_Witness ==
    /\ \E k \in 1..Len(dispatched) : dispatched[k].dev = "d1" /\ ~dispatched[k].present
    /\ MapHas(deviceConnections, "d1")
    /\ readyState[MapGet(deviceConnections, "d1").ws] = "OPEN"
    /\ Count(sent[MapGet(deviceConnections, "d1").ws], Registered("d1")) > 0

\* C5: a silence longer than the timeout produces exactly one DEVICE_OFFLINE broadcast
\* for the device, never two; the count is of the broadcasts since its latest registration.
C5_OneOfflineBroadcast ==
    \A d \in KnownIds : offlinePublished[d] <= 1

BroadcastTypes == {"DEVICE_ONLINE", "DEVICE_OFFLINE", "PLAYBACK_UPDATE",
                   "DEVICE_STATUS_UPDATE", "SCREENSHOT_READY"}

\* tenant of the ADMIN_REGISTER in force on channel c when its i-th frame was written
ObserverTenantAt(c, i) ==
    LET regs == {j \in 1..(i - 1) : sent[c][j].type = "REGISTERED" /\ sent[c][j].user # ""}
    IN  IF regs = {} THEN NoTenant ELSE user_tenant(sent[c][Max(regs)].user)

\* C6: an event of tenant T reaches only observers registered with tenant T or with no
\* tenant; an observer of another tenant receives nothing of it.
C6_TenantScopedBroadcast ==
    \A c \in Conns : \A i \in 1..Len(sent[c]) :
        sent[c][i].type \in BroadcastTypes =>
            ObserverTenantAt(c, i) \in {tenant_id(sent[c][i].dev), NoTenant}

\* C7: a DEVICE_REGISTER for a known id enters the device in the registry on its channel,
\* sets the persisted status to online, writes REGISTERED to the device and DEVICE_ONLINE
\* to every open channel of the observer registry.
C7_RegistrationEffects ==
    [][\A t \in tasks :
          /\ (RegisterLookup(t, "ok") /\ t.dev \in KnownIds) =>
                 /\ MapHas(deviceConnections', t.dev)
                 /\ MapGet(deviceConnections', t.dev).ws = t.ws
          /\ RegisterUpdate(t, "ok") => status'[t.dev] = "online"
          /\ RegisterLog(t, "ok") =>
                 /\ readyState[t.ws] = "OPEN" =>
                        Count(sent'[t.ws], Registered(t.dev)) =
                            Count(sent[t.ws], Registered(t.dev)) + 1
                 /\ \A i \in 1..Len(adminConnections) :
                        readyState[adminConnections[i].ws] = "OPEN" =>
                            Count(sent'[adminConnections[i].ws], Online(t.dev)) >
                                Count(sent[adminConnections[i].ws], Online(t.dev))]_vars

\* "d1" is registered and online, its channel got REGISTERED and an observer DEVICE_ONLINE
C7_Witness ==
    /\ MapHas(deviceConnections, "d1")
    /\ status["d1"] = "online"
    /\ Count(sent[MapGet(deviceConnections, "d1").ws], Registered("d1")) > 0
    /\ \E i \in 1..Len(adminConnections) :
          /\ adminConnections[i].ws # MapGet(deviceConnections, "d1").ws
          /\ Count(sent[adminConnections[i].ws], Online("d1")) > 0

\* C8: a DEVICE_REGISTER whose lookup returns no row (the id is absent or the call
\* fails) is answered with ERROR, changes no registry entry and leaves the channel open.
C8_FailedRegisterChangesNothing ==
    [][\A t \in tasks, o \in StoreOutcomes :
          (RegisterLookup(t, o) /\ (o = "error" \/ t.dev \notin KnownIds)) =>
              /\ deviceConnections' = deviceConnections
              /\ readyState' = readyState
              /\ readyState[t.ws] = "OPEN" => sent'[t.ws] = Append(sent[t.ws], Error)]_vars

\* a channel that was answered ERROR registered "d1" with a later DEVICE_REGISTER
C8_Witness ==
    \E c \in Conns :
        /\ \E i, j \in 1..Len(sent[c]) :
              i < j /\ sent[c][i] = Error /\ sent[c][j] = Registered("d1")
        /\ MapHas(deviceConnections, "d1")
        /\ MapGet(deviceConnections, "d1").ws = c

\* C9: when the connection of a registered device closes, its entry is removed, the
\* persisted status becomes offline, an offline row is appended to device_logs and
\* DEVICE_OFFLINE goes to the observers; an observer's close only drops its own entry.
C9_CloseTakesDeviceOffline ==
    [][\A c \in Conns :
          OnClose(c) =>
              /\ \A i \in 1..Len(deviceConnections) :
                    deviceConnections[i].ws = c =>
                        LET d == deviceConnections[i].key
                        IN  /\ ~MapHas(deviceConnections', d)
                            /\ status'[d] = "offline"
                            /\ device_logs'[<<d, "offline">>] = device_logs[<<d, "offline">>] + 1
                            /\ \A a \in 1..Len(adminConnections') :
                                  readyState[adminConnections'[a].ws] = "OPEN" =>
                                      Count(sent'[adminConnections'[a].ws], Offline(d)) >
                                          Count(sent[adminConnections'[a].ws], Offline(d))
              /\ \A a \in 1..Len(adminConnections) :
                    adminConnections[a].ws # c =>
                        \E b \in 1..Len(adminConnections') :
                            adminConnections'[b] = adminConnections[a]]_vars

\* C10: registering an id that has an entry on another channel closes the superseded
\* channel: no open channel that once registered the id is left outside the registry.
C10_SupersededChannelClosed ==
    \A c \in Conns, d \in KnownIds :
        (readyState[c] = "OPEN" /\ Count(sent[c], Registered(d)) > 0) =>
            (MapHas(deviceConnections, d) /\ MapGet(deviceConnections, d).ws = c)

\* C11: messages of one connection are handled in arrival order: a handler of message
\* n+1 takes no step while the handler of an earlier message of the same connection is
\* still suspended at an await.
C11_ArrivalOrder ==
    [][\A t \in tasks :
          t \notin tasks' =>
              ~\E u \in tasks : u.ws = t.ws /\ u.id < t.id]_vars

\* C12: the telemetry broadcast of a message the device sent after its DEVICE_REGISTER
\* on the same connection is issued only after that registration has completed, and
\* with it its DEVICE_ONLINE broadcast.
C12_OnlineBeforeTelemetry ==
    [][\A t \in tasks :
          (TelemetrySelect(t, "ok") /\ t.dev \in KnownIds) =>
              ~\E r \in tasks :
                  /\ r.type = "DEVICE_REGISTER"
                  /\ r.ws = t.ws /\ r.dev = t.dev /\ r.id < t.id]_vars

\* C13: the eviction of a device found silent for longer than the timeout sets its
\* persisted status to offline, appends an offline row to device_logs, removes the
\* device from the registry and writes DEVICE_OFFLINE to every open observer channel.
C13_EvictionEffects ==
    [][\A s \in scans :
          /\ ScanUpdate(s, "ok") => status'[s.key] = "offline"
          /\ ScanLog(s, "ok") =>
                 /\ ~MapHas(deviceConnections', s.key)
                 /\ device_logs'[<<s.key, "offline">>] =
                        device_logs[<<s.key, "offline">>] + 1
                 /\ \A i \in 1..Len(adminConnections) :
                        readyState[adminConnections[i].ws] = "OPEN" =>
                            Count(sent'[adminConnections[i].ws], Offline(s.key)) >
                                Count(sent[adminConnections[i].ws], Offline(s.key))]_vars

\* "d1" was evicted: it is out of the registry and offline, and an observer was told
C13_Witness ==
    /\ offlinePublished["d1"] > 0
    /\ ~MapHas(deviceConnections, "d1")
    /\ status["d1"] = "offline"
    /\ device_logs[<<"d1", "offline">>] > 0
    /\ \E i \in 1..Len(adminConnections) :
          Count(sent[adminConnections[i].ws], Offline("d1")) > 0

\* C14: in a broadcast, an observer whose channel cannot be written does not keep the
\* event from the other observers, and its entry leaves the observer registry.
C14_FailedObserverIsolatedAndRemoved ==
    [][\A t \in tasks :
          (RegisterLog(t, "ok") \/ (TelemetrySelect(t, "ok") /\ t.dev \in KnownIds)) =>
              LET f == IF t.type = "DEVICE_REGISTER" THEN Online(t.dev)
                       ELSE Frame(UpdateType(t.type), t.dev, "", 0)
              IN  \A i \in 1..Len(adminConnections) :
                      LET a == adminConnections[i]
                      IN  /\ readyState[a.ws] = "OPEN" =>
                                 Count(sent'[a.ws], f) > Count(sent[a.ws], f)
                          /\ readyState[a.ws] # "OPEN" =>
                                 ~\E j \in 1..Len(adminConnections') :
                                      adminConnections'[j] = a]_vars

\* C15: a device whose persisted status is blocked when it registers is still blocked
\* after the registration, and the registration puts the device into its blocked state
\* by sending it BLOCK_DEVICE.
C15_BlockSurvivesRegistration ==
    [][\A t \in tasks :
          (/\ SrvRegisterUpdate(t, "ok")
           /\ t.dev \in KnownIds
           /\ status[t.dev] = "blocked") =>
              /\ status'[t.dev] = "blocked"
              /\ \E i \in (Len(sent[t.ws]) + 1)..Len(sent'[t.ws]) :
                    sent'[t.ws][i].type = "BLOCK_DEVICE"]_vars

\* C16: of all the register-device calls that carry one pairing token, whatever their
\* number and interleaving, at most one creates a device; the others are rejected.
C16_TokenSingleUse ==
    /\ created <= 1
    /\ Cardinality({r \in Reqs : requests[r] = "created"}) <= 1

\* C17: SIGINT closes every open channel and stops the periodic tasks: after the signal
\* no channel is OPEN and the cleanup interval fires no more.
C17_ShutdownClosesAndStops ==
    [][/\ Sigint => \A c \in Conns : readyState'[c] # "OPEN"
       /\ exiting # "running" => ~Tick]_vars

\* C18: a frame that cannot be parsed or has an unknown type is logged and dropped: no
\* registry changes, nothing is written to any channel, no handler is left suspended and
\* the connection stays as it is.
C18_UnknownFrameDropped ==
    [][\A c \in Conns :
          RecvUnknown(c) =>
              /\ consoleErrors' = consoleErrors + 1
              /\ deviceConnections' = deviceConnections
              /\ adminConnections' = adminConnections
              /\ sent' = sent
              /\ tasks' = tasks
              /\ readyState' = readyState]_vars

\* the first frame of a connection was dropped and its second, a DEVICE_REGISTER, has
\* put "d1" into the registry
C18_Witness ==
    \E c \in Conns :
        /\ consoleErrors > 0
        /\ sent[c] = <<Frame("CONNECTED", "", "", 0)>>
        /\ \E t \in tasks : t.ws = c /\ t.id = 2 /\ t.pc = "update" /\ t.dev = "d1"
        /\ \A t \in tasks : t.ws = c => t.id = 2
        /\ MapHas(deviceConnections, "d1")
        /\ MapGet(deviceConnections, "d1").ws = c

\* C19: a store call that fails while a HEARTBEAT, PLAYBACK_LOG, DEVICE_STATUS or
\* SCREENSHOT_RESULT is handled is logged and otherwise ignored: no channel is closed
\* and no registry entry changes.
C19_StoreFailureLoggedAndContained ==
    [][\A t \in tasks :
          (\/ HeartbeatUpdate(t, "error")
           \/ TelemetryPersist(t, "error")
           \/ TelemetrySelect(t, "error")) =>
              /\ consoleErrors' = consoleErrors + 1
              /\ readyState' = readyState
              /\ deviceConnections' = deviceConnections
              /\ adminConnections' = adminConnections]_vars

\* C20: the removal step of the cleanup removes only the entry whose staleness it
\* checked: when the entry under the key was refreshed, replaced or removed while the
\* callback awaited the store, the registry is left as it is.
C20_EvictOnlyWhatWasChecked ==
    [][\A s \in scans, o \in StoreOutcomes :
          (/\ ScanLog(s, o)
           /\ MapHas(deviceConnections, s.key) =>
                  ~Stale(MapGet(deviceConnections, s.key), s.now)) =>
              deviceConnections' = deviceConnections]_vars

\* no handler or cleanup callback is suspended, no close is pending and no entry is
\* stale: nothing more happens unless a peer sends or leaves
Quiescent ==
    /\ tasks = {}
    /\ scans = {}
    /\ \A c \in Conns : readyState[c] # "CLOSING"
    /\ \A i \in 1..Len(deviceConnections) : ~Stale(deviceConnections[i], now)

\* the registry entry of device d is on channel c
RegisteredOn(d, c) ==
    MapHas(deviceConnections, d) /\ MapGet(deviceConnections, d).ws = c

Ack == Frame("HEARTBEAT_ACK", "", "", 0)

\* connection c was answered REGISTERED for an ADMIN_REGISTER
AdminRegistered(c) ==
    \E i \in 1..Len(sent[c]) : sent[c][i].type = "REGISTERED" /\ sent[c][i].user # ""

\* C21: closed is terminal: a registration that was awaiting the store when its
\* connection's close was handled adds no entry afterwards, so neither registry ever
\* holds an entry whose channel belongs to a connection whose close has been handled.
C21_NoEntryOfClosedConnection ==
    /\ \A i \in 1..Len(deviceConnections) :
          readyState[deviceConnections[i].ws] # "CLOSED"
    /\ \A i \in 1..Len(adminConnections) :
          readyState[adminConnections[i].ws] # "CLOSED"

\* C22: the persisted status is an eventually-consistent projection of the registry:
\* once no further events occur, a device without a registry entry is not persisted as
\* online and a device with a registry entry is not persisted as offline.
C22_StatusFollowsRegistry ==
    Quiescent =>
        \A d \in KnownIds :
            /\ ~MapHas(deviceConnections, d) => status[d] # "online"
            /\ MapHas(deviceConnections, d) => status[d] # "offline"

\* C23: every inbound message of a registered device, telemetry as well as HEARTBEAT,
\* sets lastSeen of its registry entry to the time of arrival, so a device that keeps
\* sending any kind of message is not evicted for silence.
C23_EveryMessageRefreshesLastSeen ==
    [][\A c \in Conns, d \in KnownIds :
          (/\ RegisteredOn(d, c)
           /\ \/ RecvHeartbeat(c, d)
              \/ \E type \in TelemetryTypes : RecvTelemetry(c, type, d, TRUE)) =>
              /\ MapHas(deviceConnections', d)
              /\ MapGet(deviceConnections', d).lastSeen = now]_vars

\* C24: the keepalive probe leaves every registry entry as it is, lastSeen included,
\* and adds or removes none; the cleanup tick still starts the eviction of an entry
\* whose lastSeen is older than the timeout, however often its channel was probed.
C24_KeepaliveIsNoLivenessEvidence ==
    [][/\ Keepalive =>
              /\ deviceConnections' = deviceConnections
              /\ adminConnections' = adminConnections
       /\ (Tick /\ \E i \in 1..Len(deviceConnections) : Stale(deviceConnections[i], now')) =>
              \E s \in scans' \ scans :
                  /\ s.now = now'
                  /\ Stale(deviceConnections[s.pos], now')]_vars

\* "d1" registered, sent nothing more, had its open channel probed and was evicted
C24_Witness ==
    /\ lastReg["d1"] # NoConn
    /\ readyState[lastReg["d1"]] = "OPEN"
    /\ nrecv[lastReg["d1"]] = 1
    /\ pings[lastReg["d1"]] > 0
    /\ offlinePublished["d1"] > 0
    /\ ~MapHas(deviceConnections, "d1")

\* C25: a HEARTBEAT for a device that has a registry entry sets the entry's lastSeen to
\* the current time and leaves the rest of the registry alone, its store update touches
\* the persisted last-seen and HEARTBEAT_ACK is written to the sender; a HEARTBEAT for
\* an id without an entry creates none, starts no store call and is not acknowledged.
C25_HeartbeatEffects ==
    [][/\ \A c \in Conns, d \in KnownIds :
             RecvHeartbeat(c, d) =>
                 IF MapHas(deviceConnections, d)
                 THEN /\ Len(deviceConnections') = Len(deviceConnections)
                      /\ \A i \in 1..Len(deviceConnections) :
                            deviceConnections'[i] =
                                IF deviceConnections[i].key = d
                                THEN [deviceConnections[i] EXCEPT !.lastSeen = now]
                                ELSE deviceConnections[i]
                      /\ \E t \in tasks' \ tasks :
                            t.type = "HEARTBEAT" /\ t.dev = d /\ t.ws = c
                 ELSE /\ deviceConnections' = deviceConnections
                      /\ tasks' = tasks
                      /\ sent' = sent
                      /\ last_seen' = last_seen
                      /\ status' = status
       /\ \A t \in tasks :
             HeartbeatUpdate(t, "ok") =>
                 /\ last_seen'[t.dev] = last_seen[t.dev] + 1
                 /\ readyState[t.ws] = "OPEN" => sent'[t.ws] = Append(sent[t.ws], Ack)
                 /\ \A c \in Conns \ {t.ws} : sent'[c] = sent[c]]_vars

\* "d1" registered at minute 0; a later HEARTBEAT moved its lastSeen, touched the
\* persisted last-seen a second time and was acknowledged
C25_Witness ==
    /\ MapHas(deviceConnections, "d1")
    /\ MapGet(deviceConnections, "d1").lastSeen > 0
    /\ last_seen["d1"] = 2
    /\ Count(sent[MapGet(deviceConnections, "d1").ws], Ack) = 1

\* C26: a store failure during the eviction of a stale device is logged and the cleanup
\* goes on: the device is still removed from the registry and the later ticks still run.
C26_EvictionSurvivesStoreFailure ==
    [][\A s \in scans :
          /\ ScanUpdate(s, "error") =>
                 /\ consoleErrors' = consoleErrors + 1
                 /\ \E n \in scans' : n.key = s.key /\ n.pc = "log"
          /\ ScanLog(s, "error") =>
                 /\ consoleErrors' = consoleErrors + 1
                 /\ ~MapHas(deviceConnections', s.key)
                 /\ now < MaxTicks * Period => ENABLED Tick]_vars

\* C27: a player that cannot register keeps retrying: after every failed attempt, a
\* connection that was lost or refused or a registration answered with ERROR, it
\* eventually sends DEVICE_REGISTER again, and it keeps the content it had meanwhile.
C27_RetryAfterFailedAttempt ==
    /\ \A n \in 0..(MaxRegisters - 1) :
          (registers = n /\ (playerWs = "CLOSED" \/ answer = "ERROR")) ~> (registers > n)
    /\ [][(\/ PlayerOnClose \/ PlayerRetry \/ PlayerOpen
           \/ \E d \in CoreIds, o \in StoreOutcomes : PlayerAnswered(d, o)) =>
              content' = content]_vars

\* C28: a HEARTBEAT refreshes lastSeen only of the entry whose channel is the connection
\* the frame arrived on: one that names device d and arrives on another connection
\* leaves the entry of d as it is.
C28_HeartbeatOnOwnChannelOnly ==
    [][\A c \in Conns, d \in KnownIds :
          (RecvHeartbeat(c, d) /\ MapHas(deviceConnections, d) /\ ~RegisteredOn(d, c)) =>
              deviceConnections' = deviceConnections]_vars

\* C29: every open connection that has sent ADMIN_REGISTER has an entry of its own in the
\* observer registry, whatever userId the other observers registered with or without.
C29_EveryObserverHasOwnEntry ==
    \A c \in Conns :
        (readyState[c] = "OPEN" /\ AdminRegistered(c)) =>
            \E i \in 1..Len(adminConnections) : adminConnections[i].ws = c

\* C30: whenever the content list is non-empty the slideshow index is within it, after
\* every timer advance and after every refresh of the list.
C30_IndexWithinContent ==
    content # <<>> => currentIndex < Len(content)
====
